---- MODULE Spec2Model ----
(***************************************************************************)
(* The streaming route of slide-agent (GET /api/stream-slides): the        *)
(* preamble filter on text-delta chunks, the character-level slide parser  *)
(* processChar, and the read loop that turns upstream chunks into the      *)
(* events enqueued on the output stream.                                   *)
(*                                                                         *)
(* Text is a sequence of one-character strings.  A nullable value is <<>>  *)
(* for null and <<v>> for the value v.                                     *)
(***************************************************************************)
EXTENDS Integers, Sequences, FiniteSets, TLC

(***************************************************************************)
(* Bounds of the model.                                                    *)
(***************************************************************************)
\* longest text-delta fragment the upstream cuts, short of "all the rest"
MaxFrag == 3
\* most text-delta events forwarded in pass-through mode in one session
MaxPassThrough == 2
\* most non-text lines (finish, [DONE], malformed, step-finish) per session
MaxCtl == 1

(***************************************************************************)
(* Characters and the string primitives the code uses.                     *)
(***************************************************************************)
Q == "\""
BS == "\\"
NL == "\n"
SP == " "
\* the backquote character, which a TLA+ string cannot hold
BT == "backquote"

Null == <<>>
Some(v) == <<v>>

DigitChars == <<"0", "1", "2", "3", "4", "5", "6", "7", "8", "9">>

IsDigit(char) == \E i \in 1..10 : DigitChars[i] = char

DigitVal(char) == (CHOOSE i \in 1..10 : DigitChars[i] = char) - 1

RECURSIVE parseInt(_)
parseInt(digits) ==
    IF digits = <<>> THEN 0
    ELSE parseInt(SubSeq(digits, 1, Len(digits) - 1)) * 10
         + DigitVal(digits[Len(digits)])

startsWith(s, pat) == Len(pat) <= Len(s) /\ SubSeq(s, 1, Len(pat)) = pat

includes(s, pat) ==
    \E i \in 1..(Len(s) - Len(pat) + 1) : SubSeq(s, i, i + Len(pat) - 1) = pat

\* 1-based position of the first occurrence of pat in s (s includes pat)
indexOf(s, pat) ==
    CHOOSE i \in 1..(Len(s) - Len(pat) + 1) :
        /\ SubSeq(s, i, i + Len(pat) - 1) = pat
        /\ \A j \in 1..(i - 1) : SubSeq(s, j, j + Len(pat) - 1) # pat

\* s.substring(s.indexOf(pat) + pat.length)
afterField(s, pat) == SubSeq(s, indexOf(s, pat) + Len(pat), Len(s))

\* if (s.length > n) s = s.substring(s.length - n)
keepLast(s, n) == IF Len(s) > n THEN SubSeq(s, Len(s) - n + 1, Len(s)) ELSE s

WhiteSpace == {SP, NL, "\t", "\r"}

RECURSIVE trimStart(_)
trimStart(s) ==
    IF s # <<>> /\ Head(s) \in WhiteSpace THEN trimStart(Tail(s)) ELSE s

RECURSIVE trimEnd(_)
trimEnd(s) ==
    IF s # <<>> /\ s[Len(s)] \in WhiteSpace
    THEN trimEnd(SubSeq(s, 1, Len(s) - 1)) ELSE s

trim(s) == trimEnd(trimStart(s))

(***************************************************************************)
(* The literal patterns of the parser and of the filter.                   *)
(***************************************************************************)
kSlides == <<Q, "s", "l", "i", "d", "e", "s", Q>>
kSlideNumber == <<Q, "s", "l", "i", "d", "e", "N", "u", "m", "b", "e", "r", Q>>
kTitle == <<Q, "t", "i", "t", "l", "e", Q>>
kScript == <<Q, "s", "c", "r", "i", "p", "t", Q>>

kFenceJson == <<BT, BT, BT, "j", "s", "o", "n">>
kFenceBrace == <<BT, BT, BT, NL, "{">>
kBrace == <<"{">>

InitWindow == 20
ObjectWindow == 30

(***************************************************************************)
(* Events: sendEvent enqueues one event on the output stream.  Every event *)
(* is a record of its type, its slideNumber (0 when it has none) and its   *)
(* text payload (title, content or message; <<>> when it has none).        *)
(***************************************************************************)
Ev(type, num, str) == [type |-> type, num |-> num, str |-> str]

sendEvent(s, ev) == [s EXCEPT !.out = Append(@, ev)]

(***************************************************************************)
(* ParseState                                                              *)
(***************************************************************************)
StInit == [type |-> "INIT", field |-> "", slideNum |-> Null, title |-> Null,
           buffer |-> <<>>]
StSlidesArray == [type |-> "IN_SLIDES_ARRAY", field |-> "", slideNum |-> Null,
                  title |-> Null, buffer |-> <<>>]
StSlideObject(slideNum, title) ==
    [type |-> "IN_SLIDE_OBJECT", field |-> "", slideNum |-> slideNum,
     title |-> title, buffer |-> <<>>]
StStringValue(field, slideNum, title) ==
    [type |-> "IN_STRING_VALUE", field |-> field, slideNum |-> slideNum,
     title |-> title, buffer |-> <<>>]
StNumberValue ==
    [type |-> "IN_NUMBER_VALUE", field |-> "slideNumber", slideNum |-> Null,
     title |-> Null, buffer |-> <<>>]

\* JavaScript truthiness of state.slideNum and of state.title
TruthyNum(slideNum) == slideNum # Null /\ slideNum[1] # 0
TruthyTitle(title) == title # Null /\ title[1] # <<>>

(***************************************************************************)
(* processChar, one operator per parse state.  s is the session: state,    *)
(* charBuffer, escapeNext, slideScripts (the key set of the map), out. In  *)
(* each operator charBuffer already ends with char.                        *)
(***************************************************************************)
InInit(s) ==
    LET found == /\ includes(s.charBuffer, kSlides)
                 /\ includes(afterField(s.charBuffer, kSlides), <<"[">>)
        s1 == IF found
              THEN [s EXCEPT !.state = StSlidesArray, !.charBuffer = <<>>]
              ELSE s
    IN  [s1 EXCEPT !.charBuffer = keepLast(@, InitWindow)]

InSlidesArray(s, char) ==
    IF char = "{"
    THEN [s EXCEPT !.state = StSlideObject(Null, Null), !.charBuffer = <<>>]
    ELSE IF char = "]"
    THEN [s EXCEPT !.state = StInit]
    ELSE s

\* the slide-start decision: both fields resolved, index not yet started
MayEmitSlideStart(st) ==
    TruthyNum(st.slideNum) /\ TruthyTitle(st.title)

\* the memo is not consulted
NotYetStarted_NoMemo(slideScripts, num) == TRUE

NotYetStarted(slideScripts, num) == num \notin slideScripts

\* slide-start is emitted whatever has been read of the two fields
EnterScript_Unguarded(s) ==
    LET st == s.state
        num == IF st.slideNum = Null THEN 0 ELSE st.slideNum[1]
        title == IF st.title = Null THEN <<>> ELSE st.title[1]
        s1 == IF NotYetStarted(s.slideScripts, num)
              THEN sendEvent([s EXCEPT !.slideScripts = @ \cup {num}],
                             Ev("slide-start", num, title))
              ELSE s
    IN  [s1 EXCEPT !.state = StStringValue("script", st.slideNum, st.title),
                   !.charBuffer = <<>>]

\* slide-start is emitted but the index is not put in the memo
EnterScript_NoRecord(s) ==
    LET st == s.state
        emit == MayEmitSlideStart(st)
                /\ NotYetStarted(s.slideScripts, st.slideNum[1])
        s1 == IF emit
              THEN sendEvent(s, Ev("slide-start", st.slideNum[1], st.title[1]))
              ELSE s
    IN  [s1 EXCEPT !.state = StStringValue("script", st.slideNum, st.title),
                   !.charBuffer = <<>>]

EnterScript(s) ==
    LET st == s.state
        emit == MayEmitSlideStart(st)
                /\ NotYetStarted(s.slideScripts, st.slideNum[1])
        s1 == IF emit
              THEN sendEvent([s EXCEPT !.slideScripts = @ \cup {st.slideNum[1]}],
                             Ev("slide-start", st.slideNum[1], st.title[1]))
              ELSE s
    IN  [s1 EXCEPT !.state = StStringValue("script", st.slideNum, st.title),
                   !.charBuffer = <<>>]

FieldSeen(charBuffer, pat, needQuote) ==
    /\ includes(charBuffer, pat)
    /\ includes(afterField(charBuffer, pat), <<":">>)
    /\ (needQuote => includes(afterField(charBuffer, pat), <<Q>>))

InSlideObject(s, char) ==
    IF FieldSeen(s.charBuffer, kSlideNumber, FALSE)
    THEN [s EXCEPT !.state = StNumberValue, !.charBuffer = <<>>]
    ELSE IF FieldSeen(s.charBuffer, kTitle, TRUE)
    THEN [s EXCEPT !.state = StStringValue("title", s.state.slideNum,
                                           s.state.title),
                   !.charBuffer = <<>>]
    ELSE IF FieldSeen(s.charBuffer, kScript, TRUE)
    THEN EnterScript(s)
    ELSE LET s1 == IF char = "}"
                   THEN [s EXCEPT !.state = StSlidesArray, !.charBuffer = <<>>]
                   ELSE s
         IN  [s1 EXCEPT !.charBuffer = keepLast(@, ObjectWindow)]

\* a delimiter ends the number whether or not a digit has been read
InNumberValue_Eager(s, char) ==
    IF IsDigit(char)
    THEN [s EXCEPT !.state.buffer = Append(@, char)]
    ELSE IF char \in {",", "}", NL}
    THEN [s EXCEPT !.state = StSlideObject(Some(parseInt(s.state.buffer)), Null),
                   !.charBuffer = <<char>>]
    ELSE s

InNumberValue(s, char) ==
    IF IsDigit(char)
    THEN [s EXCEPT !.state.buffer = Append(@, char)]
    ELSE IF char \in {",", "}", NL} /\ Len(s.state.buffer) > 0
    THEN [s EXCEPT !.state = StSlideObject(Some(parseInt(s.state.buffer)), Null),
                   !.charBuffer = <<char>>]
    ELSE s

\* the escaped character is kept and the flag stays up
EscapedChar_Sticky(s, char) ==
    [s EXCEPT !.state.buffer = Append(@, char)]

\* if (escapeNext) { state.buffer += char; escapeNext = false; return }
EscapedChar(s, char) ==
    [s EXCEPT !.state.buffer = Append(@, char), !.escapeNext = FALSE]

\* the backslash is kept but the flag is not raised
EscapeIntroducer_NoFlag(s, char) ==
    [s EXCEPT !.state.buffer = Append(@, char)]

\* if (char === '\\') { state.buffer += char; escapeNext = true; return }
EscapeIntroducer(s, char) ==
    [s EXCEPT !.state.buffer = Append(@, char), !.escapeNext = TRUE]

ClosingQuote(s) ==
    LET st == s.state IN
    IF st.field = "title"
    THEN [s EXCEPT !.state = StSlideObject(st.slideNum, Some(st.buffer)),
                   !.charBuffer = <<>>]
    ELSE IF st.field = "script"
    THEN LET s1 == IF TruthyNum(st.slideNum)
                   THEN sendEvent(s, Ev("slide-complete", st.slideNum[1], <<>>))
                   ELSE s
         IN  [s1 EXCEPT !.state = StSlideObject(st.slideNum, st.title),
                        !.charBuffer = <<>>]
    ELSE s

\* the character is sent whatever the index is
OrdinaryChar_Unguarded(s, char) ==
    LET s1 == [s EXCEPT !.state.buffer = Append(@, char)] IN
    IF s.state.field = "script"
    THEN sendEvent(s1, Ev("slide-content",
                          IF s.state.slideNum = Null THEN 0
                          ELSE s.state.slideNum[1], <<char>>))
    ELSE s1

\* the character is kept in the buffer and not sent
OrdinaryChar_Silent(s, char) ==
    [s EXCEPT !.state.buffer = Append(@, char)]

OrdinaryChar(s, char) ==
    LET s1 == [s EXCEPT !.state.buffer = Append(@, char)] IN
    IF s.state.field = "script" /\ TruthyNum(s.state.slideNum)
    THEN sendEvent(s1, Ev("slide-content", s.state.slideNum[1], <<char>>))
    ELSE s1

InStringValue(s, char) ==
    IF s.escapeNext THEN EscapedChar(s, char)
    ELSE IF char = BS THEN EscapeIntroducer(s, char)
    ELSE IF char = Q THEN ClosingQuote(s)
    ELSE OrdinaryChar(s, char)

processChar(s0, char) ==
    LET s == [s0 EXCEPT !.charBuffer = Append(@, char)] IN
    CASE s.state.type = "INIT" -> InInit(s)
      [] s.state.type = "IN_SLIDES_ARRAY" -> InSlidesArray(s, char)
      [] s.state.type = "IN_SLIDE_OBJECT" -> InSlideObject(s, char)
      [] s.state.type = "IN_NUMBER_VALUE" -> InNumberValue(s, char)
      [] s.state.type = "IN_STRING_VALUE" -> InStringValue(s, char)

(***************************************************************************)
(* The preamble filter: case 'text-delta' of the read loop.                *)
(***************************************************************************)
LeadInSeen(buf) ==
    LET trimmed == trim(buf) IN
    \/ startsWith(trimmed, kFenceJson)
    \/ startsWith(trimmed, kFenceBrace)
    \/ startsWith(trimmed, kBrace)

\* for (const char of textContent) processChar(char): the characters in
\* order, the first half of the fragment before the second.  The test on s
\* has TLC evaluate the session before it descends into the second half.
RECURSIVE feedChars(_, _)
feedChars(s, cs) ==
    IF s.escapeNext \in BOOLEAN /\ Len(cs) > 1
    THEN feedChars(feedChars(s, SubSeq(cs, 1, Len(cs) \div 2)),
                   SubSeq(cs, (Len(cs) \div 2) + 1, Len(cs)))
    ELSE IF cs = <<>> THEN s ELSE processChar(s, cs[1])

\* the lead-in is looked for in the fragment, not in the accumulated text
TextDelta_FragmentLeadIn(s, textContent) ==
    LET s1 == [s EXCEPT !.textBuffer = @ \o textContent]
        s2 == IF ~s1.isAccumulatingJson /\ LeadInSeen(textContent)
              THEN [s1 EXCEPT !.isAccumulatingJson = TRUE]
              ELSE s1
    IN  IF s2.isAccumulatingJson
        THEN feedChars(s2, textContent)
        ELSE sendEvent(s2, Ev("text-delta", 0, textContent))

\* the characters reach processChar in pass-through mode too
TextDelta_NoGate(s, textContent) ==
    LET s1 == [s EXCEPT !.textBuffer = @ \o textContent]
        s2 == IF ~s1.isAccumulatingJson /\ LeadInSeen(s1.textBuffer)
              THEN [s1 EXCEPT !.isAccumulatingJson = TRUE]
              ELSE s1
    IN  IF s2.isAccumulatingJson
        THEN feedChars(s2, textContent)
        ELSE feedChars(sendEvent(s2, Ev("text-delta", 0, textContent)),
                       textContent)

\* the filter leaves parser mode once the slides list has closed
TextDelta_Reopen(s, textContent) ==
    LET s1 == [s EXCEPT !.textBuffer = @ \o textContent]
        s2 == IF ~s1.isAccumulatingJson /\ LeadInSeen(s1.textBuffer)
              THEN [s1 EXCEPT !.isAccumulatingJson = TRUE]
              ELSE s1
        s3 == feedChars(s2, textContent)
    IN  IF s2.isAccumulatingJson
        THEN [s3 EXCEPT !.isAccumulatingJson =
                           ~(s3.state.type = "INIT" /\ s3.slideScripts # {})]
        ELSE sendEvent(s2, Ev("text-delta", 0, textContent))

\* the forwarded narrative is trimmed
TextDelta_ForwardsTrimmed(s, textContent) ==
    LET s1 == [s EXCEPT !.textBuffer = @ \o textContent]
        s2 == IF ~s1.isAccumulatingJson /\ LeadInSeen(s1.textBuffer)
              THEN [s1 EXCEPT !.isAccumulatingJson = TRUE]
              ELSE s1
    IN  IF s2.isAccumulatingJson
        THEN feedChars(s2, textContent)
        ELSE sendEvent(s2, Ev("text-delta", 0, trim(textContent)))

TextDelta(s, textContent) ==
    LET s1 == [s EXCEPT !.textBuffer = @ \o textContent]
        s2 == IF ~s1.isAccumulatingJson /\ LeadInSeen(s1.textBuffer)
              THEN [s1 EXCEPT !.isAccumulatingJson = TRUE]
              ELSE s1
    IN  IF s2.isAccumulatingJson
        THEN feedChars(s2, textContent)
        ELSE sendEvent(s2, Ev("text-delta", 0, textContent))

\* the same text delivered as one text-delta chunk per character
RECURSIVE perChar(_, _)
perChar(s, cs) ==
    IF s.escapeNext \in BOOLEAN /\ Len(cs) > 1
    THEN perChar(perChar(s, SubSeq(cs, 1, Len(cs) \div 2)),
                 SubSeq(cs, (Len(cs) \div 2) + 1, Len(cs)))
    ELSE IF cs = <<>> THEN s ELSE TextDelta(s, cs)

(***************************************************************************)
(* The same after the consumer has cancelled the stream: the sendEvent     *)
(* that processChar or the filter reaches throws, the statements before it *)
(* have run, the ones after it and the rest of the chunk have not.         *)
(***************************************************************************)
\* the session at the sendEvent that throws while char is processed
AtThrow(s0, char) ==
    LET s == [s0 EXCEPT !.charBuffer = Append(@, char)] IN
    IF s.state.type = "IN_SLIDE_OBJECT"
    THEN [s EXCEPT !.slideScripts = @ \cup {s.state.slideNum[1]}]
    ELSE IF char = Q
    THEN s
    ELSE [s EXCEPT !.state.buffer = Append(@, char)]

processCharClosed(s0, char) ==
    LET s == processChar(s0, char) IN
    IF s.out = s0.out
    THEN [s |-> s, thrown |-> FALSE]
    ELSE [s |-> AtThrow(s0, char), thrown |-> TRUE]

\* for (const char of textContent) processChar(char), left at the first throw
RECURSIVE feedCharsClosed(_, _)
feedCharsClosed(r, cs) ==
    IF r.thrown THEN r
    ELSE IF Len(cs) > 1
    THEN feedCharsClosed(feedCharsClosed(r, SubSeq(cs, 1, Len(cs) \div 2)),
                         SubSeq(cs, (Len(cs) \div 2) + 1, Len(cs)))
    ELSE IF cs = <<>> THEN r ELSE processCharClosed(r.s, cs[1])

TextDeltaClosed(s, textContent) ==
    LET s1 == [s EXCEPT !.textBuffer = @ \o textContent]
        s2 == IF ~s1.isAccumulatingJson /\ LeadInSeen(s1.textBuffer)
              THEN [s1 EXCEPT !.isAccumulatingJson = TRUE]
              ELSE s1
    IN  IF s2.isAccumulatingJson
        THEN feedCharsClosed([s |-> s2, thrown |-> FALSE], textContent)
        ELSE [s |-> s2, thrown |-> TRUE]

(***************************************************************************)
(* The variables a request works on: state, charBuffer, escapeNext,        *)
(* slideScripts, textBuffer and isAccumulatingJson are declared inside     *)
(* start(controller), one set for each request.                            *)
(***************************************************************************)
\* the started memo is one map of the module, shared by the requests
OwnClosure_SharedMemo(own, foreign) ==
    [own EXCEPT !.slideScripts = @ \cup foreign.slideScripts]

OwnClosure(own, foreign) == own

(***************************************************************************)
(* The text the upstream model may generate: the slides object of the      *)
(* agent's instructions, with the irregularities the parser has to meet.   *)
(***************************************************************************)
NumberField(digits) == kSlideNumber \o <<":">> \o digits
TitleField(t) == kTitle \o <<":", Q>> \o t \o <<Q>>
ScriptField(sc) == kScript \o <<":", Q>> \o sc \o <<Q>>

Record(order, digits, t, sc) ==
    <<"{">> \o
    (CASE order = "nts" -> NumberField(digits) \o <<",">> \o TitleField(t)
                           \o <<",">> \o ScriptField(sc)
       [] order = "tns" -> TitleField(t) \o <<",">> \o NumberField(digits)
                           \o <<",">> \o ScriptField(sc)
       [] order = "ns"  -> NumberField(digits) \o <<",">> \o ScriptField(sc)
       [] order = "tsn" -> TitleField(t) \o <<",">> \o ScriptField(sc)
                           \o <<",">> \o NumberField(digits))
    \o <<"}">>

Document(pre, recs) ==
    pre \o <<"{">> \o kSlides \o <<":", "[">> \o recs \o <<"]", "}">>

Fence == kFenceJson \o <<NL>>
Narrative == <<"H", "i", NL>>
Trailer == <<NL, "O", "k">>

Orders == {"nts", "tns", "ns"}
Titles == {<<"T">>, <<>>}
Scripts == {<<"a">>, <<"a", BS, Q, "b">>, <<"a", BS, BS>>}

PlainRecord == Record("nts", <<"1">>, <<"T">>, <<"a">>)

\* a script longer than the lookahead window
LongScript == [i \in 1..(ObjectWindow + 1) |-> "a"]

\* blanks the model may put between the colon and the digits of a number
Pads == {<<>>, <<SP>>, <<NL>>}

ParserDocs ==
    {Document(pre, Record(o, <<"1">>, t, sc)) :
        pre \in {<<>>, Fence}, o \in Orders, t \in Titles, sc \in Scripts}
    \cup {Document(<<>>, PlainRecord \o <<",">> \o Record(o, n, <<"U">>, <<"b">>)) :
            o \in Orders, n \in {<<"1">>, <<"2">>}}
    \cup {Document(<<SP>>, PlainRecord),
          Document(Narrative \o Fence, PlainRecord),
          Document(<<>>, PlainRecord) \o Trailer,
          Narrative,
          Document(<<>>, Record("tsn", <<"1">>, <<"T">>, <<"a">>) \o <<",">>
                         \o Record("tsn", <<"2">>, <<"U">>, <<"b">>)),
          Document(<<>>, PlainRecord)
              \o Document(<<>>, Record("nts", <<"2">>, <<"U">>, <<"b">>)),
          Document(<<>>, Record("nts", <<"1">>, <<"T", BS, Q>>, <<"a">>)),
          Document(<<>>, Record("nts", <<"1">>, <<"T">>, LongScript)),
          Document(<<>>, Record("nts", <<SP, "1", "2">>, <<"T">>, <<"a">>)),
          Document(<<>>, Record("nts", <<NL, "3">>, <<"T">>, <<"a">>)),
          Document(<<>>, Record("nts", <<"0">>, <<"T">>, <<"a">>))}

RouteDocs == {Document(<<>>, PlainRecord), Narrative}

TwoDocs == {Document(<<>>, PlainRecord), Narrative}

(***************************************************************************)
(* State.                                                                  *)
(***************************************************************************)
VARIABLES
    state,               \* ParseState
    charBuffer,          \* pattern-matching buffer of processChar
    escapeNext,          \* escape-pending flag
    slideScripts,        \* keys of the started memo
    textBuffer,          \* text accumulated by the filter
    isAccumulatingJson,  \* filter mode
    out,                 \* events enqueued on the controller, in order
    pc,                  \* position of start(controller)
    text,                \* text the upstream has still to send
    nCtl,                \* non-text lines the upstream has sent
    ref,                 \* a session of the same upstream whose text-delta
                         \* chunks hold one character each
    line,                \* kind of the last data line taken from a read
    cancelled,           \* the consumer has cancelled the output stream
    nRejected,           \* enqueue calls the cancelled stream has rejected
    other,               \* the closure variables of a second request
    otherText,           \* text the second request's upstream has to send
    currentUserId,       \* the store of user-context.ts
    req,                 \* the POST /api/stream-with-user requests
    calls,               \* the calls of the store's functions, with results
    tool,                \* the execute call of each tool
    clientState,         \* ProcessingState of SlideProcessor
    eventSourceRef,      \* eventSourceRef.current
    conns                \* the EventSource objects the component created

vars == <<state, charBuffer, escapeNext, slideScripts, textBuffer,
          isAccumulatingJson, out, pc, text, nCtl, ref, line, cancelled,
          nRejected, other, otherText, currentUserId, req, calls, tool,
          clientState, eventSourceRef, conns>>

\* the variables of the streaming route
route == <<state, charBuffer, escapeNext, slideScripts, textBuffer,
           isAccumulatingJson, out, pc, text, nCtl, ref, line, cancelled,
           nRejected, other, otherText>>

\* the variables of the user-id endpoint
users == <<currentUserId, req>>

\* the variables of the tools
tools == <<calls, tool>>

\* the variables of the browser component
client == <<clientState, eventSourceRef, conns>>

MaxConn == 2
Conns == 1..MaxConn

\* useState<ProcessingState>({ isProcessing: false, slides: [], ... })
NewProcessingState ==
    [isProcessing |-> FALSE, slides |-> <<>>, error |-> Null,
     textGenerationComplete |-> FALSE, streamFinished |-> FALSE]

\* an EventSource the component has not created yet
NoConnection ==
    [ready |-> "unused", srv |-> "ended", finished |-> FALSE, reconnects |-> 0]

Tools == {"getSlide", "getSlideCount"}

\* a tool before its execute is called
NewExecution ==
    [pc |-> "idle", userId |-> Null, attempts |-> 0, error |-> Null,
     raised |-> Null]

Requests == {1, 2}
UserIds == {"A", "B"}

\* a request before its handler runs
NewRequest == [pc |-> "idle", userId |-> Null, seen |-> "none"]

\* the variables of the second request
second == <<other, otherText>>

NewSession ==
    [state |-> StInit, charBuffer |-> <<>>, escapeNext |-> FALSE,
     slideScripts |-> {}, textBuffer |-> <<>>, isAccumulatingJson |-> FALSE,
     out |-> <<>>]

Session ==
    [state |-> state, charBuffer |-> charBuffer, escapeNext |-> escapeNext,
     slideScripts |-> slideScripts, textBuffer |-> textBuffer,
     isAccumulatingJson |-> isAccumulatingJson, out |-> out]

Becomes(s) ==
    /\ state' = s.state
    /\ charBuffer' = s.charBuffer
    /\ escapeNext' = s.escapeNext
    /\ slideScripts' = s.slideScripts
    /\ textBuffer' = s.textBuffer
    /\ isAccumulatingJson' = s.isAccumulatingJson
    /\ out' = s.out

InitAt(position, docs, others) ==
    /\ state = StInit
    /\ charBuffer = <<>>
    /\ escapeNext = FALSE
    /\ slideScripts = {}
    /\ textBuffer = <<>>
    /\ isAccumulatingJson = FALSE
    /\ out = <<>>
    /\ pc = position
    /\ text \in docs
    /\ nCtl = 0
    /\ ref = NewSession
    /\ line = ""
    /\ cancelled = FALSE
    /\ nRejected = 0
    /\ other = NewSession
    /\ otherText \in others
    /\ currentUserId = Null
    /\ req = [r \in Requests |-> NewRequest]
    /\ calls = <<>>
    /\ tool = [t \in Tools |-> NewExecution]
    /\ clientState = NewProcessingState
    /\ eventSourceRef = Null
    /\ conns = [c \in Conns |-> NoConnection]

\* the state when start(controller) is called
InitWith(docs, others) == InitAt("start", docs, others)

Init == InitWith(RouteDocs, {<<>>})

InitParser == InitWith(ParserDocs, {<<>>})

(***************************************************************************)
(* start(controller): the steps between its awaits.  pc is "start" before  *)
(* the start event, "fetch" while the fetch is awaited, "read" while       *)
(* reader.read() is awaited, "lines" inside the loop over the lines of one *)
(* read, and "closed" after controller.close().                            *)
(*                                                                         *)
(* controller.enqueue throws a TypeError once the consumer has cancelled   *)
(* the stream, and so does sendEvent: nRejected counts these calls.        *)
(***************************************************************************)
CountOf(events, type) ==
    Cardinality({i \in 1..Len(events) : events[i].type = type})

FragSizes(t) == (1..(IF Len(t) < MaxFrag THEN Len(t) ELSE MaxFrag)) \cup {Len(t)}

\* sendEvent outside processChar: the event is enqueued, or the call throws
Enqueue(ev) ==
    IF cancelled
    THEN out' = out /\ nRejected' = nRejected + 1
    ELSE out' = Append(out, ev) /\ nRejected' = nRejected

\* sendEvent('start', ...) and the call of fetch
Start ==
    /\ pc = "start"
    /\ out' = Append(out, Ev("start", 0, <<>>))
    /\ ref' = sendEvent(ref, Ev("start", 0, <<>>))
    /\ pc' = "fetch"
    /\ UNCHANGED <<state, charBuffer, escapeNext, slideScripts, textBuffer,
                   isAccumulatingJson, text, nCtl, line, cancelled, nRejected,
                   second, users,
                   tools, client>>

\* the response is ok and has a body: getReader()
FetchOk ==
    /\ pc = "fetch"
    /\ pc' = "read"
    /\ UNCHANGED <<state, charBuffer, escapeNext, slideScripts, textBuffer,
                   isAccumulatingJson, out, text, nCtl, ref, line, cancelled,
                   nRejected, second, users,
                   tools, client>>

\* catch (error) { sendEvent('error', ...) } finally { controller.close() }
Catch(message) ==
    /\ Enqueue(Ev("error", 0, <<message>>))
    /\ ref' = sendEvent(ref, Ev("error", 0, <<message>>))
    /\ pc' = "closed"
    /\ UNCHANGED <<state, charBuffer, escapeNext, slideScripts, textBuffer,
                   isAccumulatingJson, text, nCtl, line, cancelled, second, users,
                   tools, client>>

\* fetch rejects, the status is not ok, or the response has no body
FetchFail ==
    /\ pc = "fetch"
    /\ \E message \in {"fetch failed", "Mastra API error", "No response body"} :
          Catch(message)

\* reader.read() resolves with a value: the loop over its lines begins
ReadValue ==
    /\ pc = "read"
    /\ pc' = "lines"
    /\ UNCHANGED <<state, charBuffer, escapeNext, slideScripts, textBuffer,
                   isAccumulatingJson, out, text, nCtl, ref, line, cancelled,
                   nRejected, second, users,
                   tools, client>>

\* a data line holding a text-delta chunk with the next n characters
TextDeltaLine ==
    /\ pc = "lines"
    /\ ~cancelled
    /\ text # <<>>
    /\ \E n \in FragSizes(text) :
          LET textContent == SubSeq(text, 1, n)
              s == TextDelta(Session, textContent)
          IN  /\ CountOf(s.out, "text-delta") <= MaxPassThrough
              /\ Becomes(s)
              /\ text' = SubSeq(text, n + 1, Len(text))
              /\ ref' = perChar(ref, textContent)
    /\ line' = "text-delta"
    /\ UNCHANGED <<pc, nCtl, cancelled, nRejected, second, users,
                   tools, client>>

\* the same line after the consumer has cancelled: the first sendEvent of
\* the chunk throws, which ends the handling of the chunk; catch
\* (parseError) logs it and the loop goes on with the next line
TextDeltaLineCancelled ==
    /\ pc = "lines"
    /\ cancelled
    /\ text # <<>>
    /\ \E n \in FragSizes(text) :
          LET textContent == SubSeq(text, 1, n)
              r == TextDeltaClosed(Session, textContent)
          IN  /\ Becomes(r.s)
              /\ nRejected' = nRejected + (IF r.thrown THEN 1 ELSE 0)
              /\ text' = SubSeq(text, n + 1, Len(text))
              /\ ref' = perChar(ref, textContent)
    /\ line' = "text-delta"
    /\ UNCHANGED <<pc, nCtl, cancelled, second, users,
                   tools, client>>

\* case 'finish': sendEvent('finish', { presentationId })
FinishLine ==
    /\ pc = "lines"
    /\ nCtl < MaxCtl
    /\ nCtl' = nCtl + 1
    /\ line' = "finish"
    /\ Enqueue(Ev("finish", 0, <<>>))
    /\ ref' = sendEvent(ref, Ev("finish", 0, <<>>))
    /\ UNCHANGED <<state, charBuffer, escapeNext, slideScripts, textBuffer,
                   isAccumulatingJson, pc, text, cancelled, second, users,
                   tools, client>>

\* case 'step-finish': sendEvent('tool-result', ...)
StepFinishLine ==
    /\ pc = "lines"
    /\ nCtl < MaxCtl
    /\ nCtl' = nCtl + 1
    /\ line' = "step-finish"
    /\ Enqueue(Ev("tool-result", 0, <<>>))
    /\ ref' = sendEvent(ref, Ev("tool-result", 0, <<>>))
    /\ UNCHANGED <<state, charBuffer, escapeNext, slideScripts, textBuffer,
                   isAccumulatingJson, pc, text, cancelled, second, users,
                   tools, client>>

\* the line is handled as an upstream failure
MalformedLine_Aborts ==
    /\ pc = "lines"
    /\ nCtl < MaxCtl
    /\ nCtl' = nCtl + 1
    /\ line' = "malformed"
    /\ Enqueue(Ev("error", 0, <<"parse failed">>))
    /\ ref' = ref
    /\ pc' = "closed"
    /\ UNCHANGED <<state, charBuffer, escapeNext, slideScripts, textBuffer,
                   isAccumulatingJson, text, cancelled, second, users,
                   tools, client>>

\* JSON.parse throws: the line is logged and skipped
MalformedLine ==
    /\ pc = "lines"
    /\ nCtl < MaxCtl
    /\ nCtl' = nCtl + 1
    /\ line' = "malformed"
    /\ UNCHANGED <<state, charBuffer, escapeNext, slideScripts, textBuffer,
                   isAccumulatingJson, out, pc, text, ref, cancelled,
                   nRejected, second, users,
                   tools, client>>

\* the '[DONE]' line: break leaves the loop over the lines of this read;
\* the text of the lines that followed it in the read is never handled
DoneLine ==
    /\ pc = "lines"
    /\ nCtl < MaxCtl
    /\ nCtl' = nCtl + 1
    /\ line' = "[DONE]"
    /\ pc' = "read"
    /\ \E n \in {0} \cup FragSizes(text) : text' = SubSeq(text, n + 1, Len(text))
    /\ UNCHANGED <<state, charBuffer, escapeNext, slideScripts, textBuffer,
                   isAccumulatingJson, out, ref, cancelled, nRejected, second, users,
                   tools, client>>

\* the loop over the lines of this read is over: back to reader.read()
EndLines ==
    /\ pc = "lines"
    /\ pc' = "read"
    /\ UNCHANGED <<state, charBuffer, escapeNext, slideScripts, textBuffer,
                   isAccumulatingJson, out, text, nCtl, ref, line, cancelled,
                   nRejected, second, users,
                   tools, client>>

\* at the end of the stream the open script is completed
ReadDone_Flush ==
    /\ pc = "read"
    /\ out' = (IF state.type = "IN_STRING_VALUE" /\ state.field = "script"
                  /\ TruthyNum(state.slideNum)
               THEN Append(out, Ev("slide-complete", state.slideNum[1], <<>>))
               ELSE out) \o <<Ev("finish", 0, <<>>)>>
    /\ ref' = sendEvent(ref, Ev("finish", 0, <<>>))
    /\ pc' = "closed"
    /\ UNCHANGED <<state, charBuffer, escapeNext, slideScripts, textBuffer,
                   isAccumulatingJson, text, nCtl, line, cancelled, nRejected,
                   second, users,
                   tools, client>>

\* reader.read() resolves with done: the final finish, then close.  After a
\* cancel the final sendEvent throws, and so does the one of the catch block
ReadDone ==
    /\ pc = "read"
    /\ IF cancelled
       THEN out' = out /\ nRejected' = nRejected + 2
       ELSE out' = Append(out, Ev("finish", 0, <<>>)) /\ nRejected' = nRejected
    /\ ref' = sendEvent(ref, Ev("finish", 0, <<>>))
    /\ pc' = "closed"
    /\ UNCHANGED <<state, charBuffer, escapeNext, slideScripts, textBuffer,
                   isAccumulatingJson, text, nCtl, line, cancelled, second, users,
                   tools, client>>

\* reader.read() rejects
ReadThrows ==
    /\ pc = "read"
    /\ Catch("read failed")

\* cancel(): the consumer cancels the stream while start(controller) is
\* suspended in an await; the callback only logs
Cancel ==
    /\ pc \in {"fetch", "read"}
    /\ ~cancelled
    /\ cancelled' = TRUE
    /\ UNCHANGED <<state, charBuffer, escapeNext, slideScripts, textBuffer,
                   isAccumulatingJson, out, pc, text, nCtl, ref, line,
                   nRejected, second, users,
                   tools, client>>

\* a text-delta line of the second request, one character a chunk: its
\* start(controller) runs on the variables of its own closure
OtherTextDelta ==
    /\ otherText # <<>>
    /\ other' = TextDelta(OwnClosure(other, Session), <<Head(otherText)>>)
    /\ otherText' = Tail(otherText)
    /\ UNCHANGED <<state, charBuffer, escapeNext, slideScripts, textBuffer,
                   isAccumulatingJson, out, pc, text, nCtl, ref, line,
                   cancelled, nRejected, users, tools, client>>

Next ==
    \/ Start
    \/ FetchOk
    \/ FetchFail
    \/ ReadValue
    \/ TextDeltaLine
    \/ FinishLine
    \/ StepFinishLine
    \/ MalformedLine
    \/ DoneLine
    \/ EndLines
    \/ ReadDone
    \/ ReadThrows

Spec == Init /\ [][Next]_vars

\* the upstream sends text-delta chunks only and ends without failing
NextParser ==
    \/ Start
    \/ FetchOk
    \/ ReadValue
    \/ TextDeltaLine
    \/ EndLines
    \/ ReadDone

SpecParser == InitParser /\ [][NextParser]_vars

\* the consumer may cancel the stream
NextCancel ==
    \/ Start
    \/ FetchOk
    \/ FetchFail
    \/ ReadValue
    \/ TextDeltaLine
    \/ TextDeltaLineCancelled
    \/ FinishLine
    \/ EndLines
    \/ ReadDone
    \/ ReadThrows
    \/ Cancel

SpecCancel == Init /\ [][NextCancel]_vars

(***************************************************************************)
(* GET from the request on: pc is "get" before the handler runs and        *)
(* "refused" after the status 400 response; the upstream may send chunks   *)
(* of type 'start'.                                                        *)
(***************************************************************************)
\* presentationId is missing: status 400, no stream is created
GetRefused ==
    /\ pc = "get"
    /\ pc' = "refused"
    /\ UNCHANGED <<state, charBuffer, escapeNext, slideScripts, textBuffer,
                   isAccumulatingJson, out, text, nCtl, ref, line, cancelled,
                   nRejected, second, users,
                   tools, client>>

\* presentationId is present: the stream is created and start(controller)
\* runs up to the await of fetch
GetAccepted ==
    /\ pc = "get"
    /\ out' = Append(out, Ev("start", 0, <<>>))
    /\ ref' = sendEvent(ref, Ev("start", 0, <<>>))
    /\ pc' = "fetch"
    /\ UNCHANGED <<state, charBuffer, escapeNext, slideScripts, textBuffer,
                   isAccumulatingJson, text, nCtl, line, cancelled, nRejected,
                   second, users,
                   tools, client>>

\* the upstream chunk is forwarded as a start event
StartLine_Resends ==
    /\ pc = "lines"
    /\ nCtl < MaxCtl
    /\ nCtl' = nCtl + 1
    /\ line' = "start"
    /\ Enqueue(Ev("start", 0, <<>>))
    /\ UNCHANGED <<state, charBuffer, escapeNext, slideScripts, textBuffer,
                   isAccumulatingJson, pc, text, ref, cancelled, second, users,
                   tools, client>>

\* case 'start': break
StartLine ==
    /\ pc = "lines"
    /\ nCtl < MaxCtl
    /\ nCtl' = nCtl + 1
    /\ line' = "start"
    /\ UNCHANGED <<state, charBuffer, escapeNext, slideScripts, textBuffer,
                   isAccumulatingJson, out, pc, text, ref, cancelled,
                   nRejected, second, users,
                   tools, client>>

InitStart == InitAt("get", RouteDocs, {<<>>})

NextStart ==
    \/ GetRefused
    \/ GetAccepted
    \/ FetchOk
    \/ FetchFail
    \/ ReadValue
    \/ TextDeltaLine
    \/ StartLine
    \/ FinishLine
    \/ EndLines
    \/ ReadDone
    \/ ReadThrows

SpecStart == InitStart /\ [][NextStart]_vars

(***************************************************************************)
(* POST /api/stream-with-user and the store of user-context.ts.  The pc of *)
(* a request is "idle" before the handler runs, "calling" while            *)
(* SlideAgent.stream is awaited, "streaming" while the text stream is      *)
(* iterated, and "ended", "aborted", "failed" (status 500) or "rejected"   *)
(* (status 400) after the response.  seen is what the last getUserId call  *)
(* of a tool of the request produced.                                      *)
(***************************************************************************)
\* getUserId(): the stored id, or the 'No userId available' error; in the
\* first version only null counts as missing
getUserId_NullOnly(store) == IF store = Null THEN "throws" ELSE store[1]

\* if (!currentUserId) throw: null and the empty string are both falsy
getUserId(store) ==
    IF store = Null \/ store[1] = "" THEN "throws" ELSE store[1]

\* the body has no userId: status 400
PostWithoutUser(r) ==
    /\ req[r].pc = "idle"
    /\ req' = [req EXCEPT ![r].pc = "rejected"]
    /\ UNCHANGED <<route, currentUserId, tools, client>>

\* setUserId(userId), then the call of SlideAgent.stream
Post(r, userId) ==
    /\ req[r].pc = "idle"
    /\ currentUserId' = Some(userId)
    /\ req' = [req EXCEPT ![r].pc = "calling", ![r].userId = Some(userId)]
    /\ UNCHANGED <<route, tools, client>>

\* SlideAgent.stream resolves: the headers are set, the iteration begins
StreamOpens(r) ==
    /\ req[r].pc = "calling"
    /\ req' = [req EXCEPT ![r].pc = "streaming"]
    /\ UNCHANGED <<route, currentUserId, tools, client>>

\* SlideAgent.stream rejects: both catch blocks call clearUserId; status 500
StreamRejects(r) ==
    /\ req[r].pc = "calling"
    /\ currentUserId' = Null
    /\ req' = [req EXCEPT ![r].pc = "failed"]
    /\ UNCHANGED <<route, tools, client>>

\* a tool of the agent run of request r executes: const userId = getUserId()
ToolCall(r) ==
    /\ req[r].pc = "streaming"
    /\ req' = [req EXCEPT ![r].seen = getUserId(currentUserId)]
    /\ UNCHANGED <<route, currentUserId, tools, client>>

\* the text stream ends: finish is written, finally { clearUserId(); res.end() }
StreamEnds(r) ==
    /\ req[r].pc = "streaming"
    /\ currentUserId' = Null
    /\ req' = [req EXCEPT ![r].pc = "ended"]
    /\ UNCHANGED <<route, tools, client>>

\* the iteration throws and the id stays in the store
StreamThrows_Leaks(r) ==
    /\ req[r].pc = "streaming"
    /\ req' = [req EXCEPT ![r].pc = "aborted"]
    /\ UNCHANGED <<route, currentUserId, tools, client>>

\* the iteration throws: finally and both catch blocks call clearUserId;
\* the headers are sent, so the response just ends
StreamThrows(r) ==
    /\ req[r].pc = "streaming"
    /\ currentUserId' = Null
    /\ req' = [req EXCEPT ![r].pc = "aborted"]
    /\ UNCHANGED <<route, tools, client>>

InitUsers == InitWith({<<>>}, {<<>>})

NextUsers ==
    \/ \E r \in Requests : PostWithoutUser(r)
    \/ \E r \in Requests, userId \in UserIds : Post(r, userId)
    \/ \E r \in Requests : StreamOpens(r)
    \/ \E r \in Requests : StreamRejects(r)
    \/ \E r \in Requests : ToolCall(r)
    \/ \E r \in Requests : StreamEnds(r)
    \/ \E r \in Requests : StreamThrows(r)

SpecUsers == InitUsers /\ [][NextUsers]_vars

\* the handler of request r is between setUserId and its last clearUserId
Active(r) == req[r].pc \in {"calling", "streaming"}

\* no other request is being handled
Alone(r) == \A q \in Requests \ {r} : ~Active(q)

\* the requests are handled one after the other
NextAlone ==
    \/ \E r \in Requests : Alone(r) /\ PostWithoutUser(r)
    \/ \E r \in Requests, userId \in UserIds : Alone(r) /\ Post(r, userId)
    \/ \E r \in Requests : StreamOpens(r)
    \/ \E r \in Requests : StreamRejects(r)
    \/ \E r \in Requests : ToolCall(r)
    \/ \E r \in Requests : StreamEnds(r)
    \/ \E r \in Requests : StreamThrows(r)

SpecAlone == InitUsers /\ [][NextAlone]_vars

(***************************************************************************)
(* The store of user-context.ts as its callers use it, and execute of      *)
(* getSlide and getSlideCount.  The pc of a tool is "idle" before execute, *)
(* "first" while the first fetch is awaited, "second" while the retry is   *)
(* awaited, and "returned" or "raised" after execute; attempts counts the  *)
(* calls of the fetch helper and error is what the first one threw: an     *)
(* Error with a message, or another value.                                 *)
(***************************************************************************)
MaxCalls == 4

k401 == <<"4", "0", "1">>
kInvalidGrant == <<"i", "n", "v", "a", "l", "i", "d", "_", "g", "r", "a", "n", "t">>
k404 == <<"4", "0", "4">>
k403 == <<"4", "0", "3">>
kOutOfRange == <<"o", "u", "t", " ", "o", "f", " ", "r", "a", "n", "g", "e">>
kNoSlides == <<"N", "o", " ", "s", "l", "i", "d", "e", "s", " ", "f", "o", "u", "n", "d">>
kNoData == <<"C", "o", "u", "l", "d", " ", "n", "o", "t", " ", "r", "e", "t", "r", "i", "e", "v", "e", " ", "p", "r", "e", "s", "e", "n", "t", "a", "t", "i", "o", "n", " ", "d", "a", "t", "a">>

\* what a fetch may throw
Failures ==
    [isError : {TRUE},
     message : {<<"E", " ">> \o k401, kInvalidGrant, k404, k403, <<"4", "0">>,
                kOutOfRange, kNoSlides, kNoData,
                k404 \o <<" ">> \o k401}]
    \cup [isError : {FALSE}, message : {k401}]

\* the messages each tool throws again as they are
Friendly(t) ==
    IF t = "getSlide" THEN {kOutOfRange, kNoSlides} ELSE {kNoData}

\* setUserId(userId)
SetUserId(userId) ==
    /\ Len(calls) < MaxCalls
    /\ currentUserId' = Some(userId)
    /\ calls' = Append(calls, [op |-> "set", v |-> userId])
    /\ UNCHANGED <<route, req, tool, client>>

\* clearUserId()
ClearUserId ==
    /\ Len(calls) < MaxCalls
    /\ currentUserId' = Null
    /\ calls' = Append(calls, [op |-> "clear", v |-> ""])
    /\ UNCHANGED <<route, req, tool, client>>

\* execute up to its first await: getUserId(), then the first fetch
Execute(t) ==
    /\ tool[t].pc \in {"idle", "returned", "raised"}
    /\ Len(calls) < MaxCalls
    /\ LET userId == getUserId(currentUserId) IN
          /\ calls' = Append(calls, [op |-> "get", v |-> userId])
          /\ tool' = [tool EXCEPT ![t] =
                IF userId = "throws"
                THEN [pc |-> "raised", userId |-> Null, attempts |-> 0,
                      error |-> Null,
                      raised |-> Some([kind |-> "no-user", message |-> <<>>])]
                ELSE [pc |-> "first", userId |-> Some(userId), attempts |-> 1,
                      error |-> Null, raised |-> Null]]
    /\ UNCHANGED <<route, users, client>>

\* a fetch resolves: execute returns its result
FetchReturns(t) ==
    /\ tool[t].pc \in {"first", "second"}
    /\ tool' = [tool EXCEPT ![t].pc = "returned"]
    /\ UNCHANGED <<route, users, calls, client>>

\* the error message starts a second fetch
Retries(failure) ==
    /\ failure.isError
    /\ includes(failure.message, k401) \/ includes(failure.message, kInvalidGrant)

\* what the catch block throws when it does not retry
Rethrown(t, failure) ==
    IF ~failure.isError THEN [kind |-> "failed", message |-> failure.message]
    ELSE IF includes(failure.message, k404)
    THEN [kind |-> "not-found", message |-> <<>>]
    ELSE IF includes(failure.message, k403)
    THEN [kind |-> "denied", message |-> <<>>]
    ELSE IF \E pat \in Friendly(t) : includes(failure.message, pat)
    THEN [kind |-> "same", message |-> failure.message]
    ELSE [kind |-> "failed", message |-> failure.message]

\* every failure of the first fetch is tried again
FirstFails_AlwaysRetries(t, failure) ==
    /\ tool[t].pc = "first"
    /\ tool' = [tool EXCEPT ![t].pc = "second", ![t].attempts = 2,
                            ![t].error = Some(failure)]
    /\ UNCHANGED <<route, users, calls, client>>

\* the first fetch throws: catch (error)
FirstFails(t, failure) ==
    /\ tool[t].pc = "first"
    /\ tool' = [tool EXCEPT ![t] =
          IF Retries(failure)
          THEN [@ EXCEPT !.pc = "second", !.attempts = 2,
                         !.error = Some(failure)]
          ELSE [@ EXCEPT !.pc = "raised", !.error = Some(failure),
                         !.raised = Some(Rethrown(t, failure))]]
    /\ UNCHANGED <<route, users, calls, client>>

\* the second fetch throws: catch (retryError)
SecondFails(t, failure) ==
    /\ tool[t].pc = "second"
    /\ tool' = [tool EXCEPT ![t].pc = "raised",
                            ![t].raised = Some([kind |-> "auth-retry",
                                                message |-> failure.message])]
    /\ UNCHANGED <<route, users, calls, client>>

NextTools ==
    \/ \E userId \in UserIds \cup {""} : SetUserId(userId)
    \/ ClearUserId
    \/ \E t \in Tools : Execute(t)
    \/ \E t \in Tools : FetchReturns(t)
    \/ \E t \in Tools, failure \in Failures : FirstFails(t, failure)
    \/ \E t \in Tools, failure \in Failures : SecondFails(t, failure)

SpecTools == InitUsers /\ [][NextTools]_vars

(***************************************************************************)
(* SlideProcessor, the browser component.  An EventSource is "open" while  *)
(* it delivers messages, "connecting" after the browser has lost the       *)
(* response and before it has opened the next one, and "closed" after      *)
(* close() or a fatal failure; srv tells whether the response of the       *)
(* server is still "live" or has "ended"; finished tells that a finish     *)
(* chunk of the connection has been handled.                               *)
(***************************************************************************)
MaxScript == 1
MaxReconnect == 1

\* updatedSlides.findIndex(s => s.slideNumber === n), 0 for -1
findIndex(slides, n) ==
    LET at == {i \in 1..Len(slides) : slides[i].slideNumber = n}
    IN  IF at = {} THEN 0 ELSE CHOOSE i \in at : \A j \in at : i <= j

\* one step of a stable sort by slideNumber
Insert(sorted, x) ==
    LET k == Cardinality({i \in 1..Len(sorted) :
                             sorted[i].slideNumber <= x.slideNumber})
    IN  SubSeq(sorted, 1, k) \o <<x>> \o SubSeq(sorted, k + 1, Len(sorted))

\* updatedSlides.sort((a, b) => a.slideNumber - b.slideNumber)
RECURSIVE sort(_)
sort(slides) ==
    IF Len(slides) <= 1 THEN slides
    ELSE Insert(sort(SubSeq(slides, 1, Len(slides) - 1)), slides[Len(slides)])

\* the block is put in place of the one of its number, or at the end
PutSlide_NoSort(slides, block) ==
    LET existingIndex == findIndex(slides, block.slideNumber) IN
    IF existingIndex >= 1 THEN [slides EXCEPT ![existingIndex] = block]
    ELSE Append(slides, block)

\* the block replaces the one of its number, or is pushed and the list sorted
PutSlide(slides, block) ==
    LET existingIndex == findIndex(slides, block.slideNumber) IN
    IF existingIndex >= 1 THEN [slides EXCEPT ![existingIndex] = block]
    ELSE sort(Append(slides, block))

\* case 'slide-start'
SlideStart(slides, chunk) ==
    IF chunk.num # 0 /\ chunk.str # <<>>
    THEN PutSlide(slides, [slideNumber |-> chunk.num, title |-> chunk.str,
                           script |-> <<>>, isComplete |-> FALSE,
                           isStreaming |-> Some(TRUE)])
    ELSE slides

\* case 'slide-content'
SlideContent(slides, chunk) ==
    LET slideIndex == findIndex(slides, chunk.num) IN
    IF chunk.num # 0 /\ chunk.str # <<>> /\ slideIndex >= 1
    THEN [slides EXCEPT ![slideIndex].script = @ \o chunk.str,
                        ![slideIndex].isStreaming = Some(TRUE)]
    ELSE slides

\* case 'slide-complete'
SlideComplete(slides, chunk) ==
    LET slideIndex == findIndex(slides, chunk.num) IN
    IF chunk.num # 0 /\ slideIndex >= 1
    THEN [slides EXCEPT ![slideIndex].isStreaming = Some(FALSE),
                        ![slideIndex].isComplete = TRUE]
    ELSE slides

\* case 'slide': chunk.slide is a whole block
SlideWhole(slides, chunk) == PutSlide(slides, chunk.slide)

\* the switch of onmessage, as the state it returns
Reduce(prev, chunk) ==
    CASE chunk.type = "slide-start" ->
            [prev EXCEPT !.slides = SlideStart(prev.slides, chunk)]
      [] chunk.type = "slide-content" ->
            [prev EXCEPT !.slides = SlideContent(prev.slides, chunk)]
      [] chunk.type = "slide-complete" ->
            [prev EXCEPT !.slides = SlideComplete(prev.slides, chunk)]
      [] chunk.type = "slide" ->
            [prev EXCEPT !.slides = SlideWhole(prev.slides, chunk)]
      [] chunk.type = "finish" ->
            [prev EXCEPT !.isProcessing = FALSE,
                         !.textGenerationComplete = TRUE,
                         !.streamFinished = TRUE]
      [] chunk.type = "error" ->
            [prev EXCEPT !.isProcessing = FALSE, !.error = Some("server")]
      [] OTHER -> prev

\* eventSourceRef.current.close() when the ref holds a connection
CloseCurrent(cs) ==
    IF eventSourceRef = Null THEN cs
    ELSE [cs EXCEPT ![eventSourceRef[1]].ready = "closed"]

\* the chunks a connection may deliver
SlideChunks ==
    {Ev(type, n, str) : type \in {"slide-start", "slide-content"},
                        n \in 0..3, str \in {<<>>, <<"a">>}}
    \cup {Ev("slide-complete", n, <<>>) : n \in 0..3}
    \cup {[type |-> "slide",
           slide |-> [slideNumber |-> n, title |-> <<"S">>, script |-> <<>>,
                      isComplete |-> TRUE, isStreaming |-> Null]] : n \in 0..3}

ControlChunks ==
    {Ev("start", 0, <<>>), Ev("finish", 0, <<>>), Ev("error", 0, <<"m">>)}

\* handleSubmit with a valid input: nothing while a stream is processing
handleSubmit ==
    /\ ~clientState.isProcessing
    /\ \E c \in Conns :
          /\ conns[c].ready = "unused"
          /\ \A b \in Conns : conns[b].ready = "unused" => c <= b
          /\ conns' = [conns EXCEPT ![c] = [ready |-> "open", srv |-> "live",
                                            finished |-> FALSE,
                                            reconnects |-> 0]]
          /\ eventSourceRef' = Some(c)
    /\ clientState' = [NewProcessingState EXCEPT !.isProcessing = TRUE]
    /\ UNCHANGED <<route, users, tools>>

\* eventSource.onmessage of connection c; the response ends after finish
\* and after error
onmessage(c, chunk) ==
    /\ conns[c].ready = "open"
    /\ conns[c].srv = "live"
    /\ clientState' = Reduce(clientState, chunk)
    /\ \A i \in 1..Len(clientState'.slides) :
          Len(clientState'.slides[i].script) <= MaxScript
    /\ LET ended == [conns EXCEPT ![c].srv =
                        IF chunk.type \in {"finish", "error"}
                        THEN "ended" ELSE @]
       IN  IF chunk.type = "finish"
           THEN /\ conns' = [CloseCurrent(ended) EXCEPT ![c].finished = TRUE]
                /\ eventSourceRef' = Null
           ELSE /\ conns' = ended
                /\ eventSourceRef' = eventSourceRef
    /\ UNCHANGED <<route, users, tools>>

\* eventSource.onerror of connection c: the response has ended or the
\* network has failed; unless close() is called on it the browser connects
\* again, or gives up when the failure is fatal
onerror(c, fatal) ==
    /\ conns[c].ready = "open"
    /\ clientState' = [clientState EXCEPT !.isProcessing = FALSE,
                                          !.error = Some("connection")]
    /\ conns' = CloseCurrent([conns EXCEPT ![c].ready =
                                IF fatal THEN "closed" ELSE "connecting",
                                           ![c].srv = "ended"])
    /\ eventSourceRef' = Null
    /\ UNCHANGED <<route, users, tools>>

\* the browser opens the next response of a connection it had lost
Reconnect(c) ==
    /\ conns[c].ready = "connecting"
    /\ conns[c].reconnects < MaxReconnect
    /\ conns' = [conns EXCEPT ![c].ready = "open", ![c].srv = "live",
                              ![c].reconnects = @ + 1]
    /\ UNCHANGED <<route, users, tools, clientState, eventSourceRef>>

\* handleStop: the button is shown while a stream is processing
handleStop ==
    /\ clientState.isProcessing
    /\ conns' = CloseCurrent(conns)
    /\ eventSourceRef' = Null
    /\ clientState' = [clientState EXCEPT !.isProcessing = FALSE]
    /\ UNCHANGED <<route, users, tools>>

\* handleClear
handleClear ==
    /\ clientState' = [clientState EXCEPT !.slides = <<>>, !.error = Null,
                                          !.textGenerationComplete = FALSE]
    /\ UNCHANGED <<route, users, tools, eventSourceRef, conns>>

NextClient ==
    \/ handleSubmit
    \/ \E c \in Conns, chunk \in ControlChunks \cup {Ev("slide-start", 1, <<"a">>)} :
          onmessage(c, chunk)
    \/ \E c \in Conns, fatal \in BOOLEAN : onerror(c, fatal)
    \/ \E c \in Conns : Reconnect(c)
    \/ handleStop
    \/ handleClear

SpecClient == InitUsers /\ [][NextClient]_vars

\* the connection delivers slide chunks only
NextSlides ==
    \/ handleSubmit
    \/ \E c \in Conns, chunk \in SlideChunks : onmessage(c, chunk)

SpecSlides == InitUsers /\ [][NextSlides]_vars

\* two requests are served at once
InitTwo == InitWith(TwoDocs, TwoDocs)

NextTwo ==
    \/ Start
    \/ FetchOk
    \/ ReadValue
    \/ TextDeltaLine
    \/ EndLines
    \/ ReadDone
    \/ OtherTextDelta

SpecTwo == InitTwo /\ [][NextTwo]_vars

(***************************************************************************)
(* Vocabulary of the properties.                                           *)
(***************************************************************************)
SlideTypes == {"slide-start", "slide-content", "slide-complete"}

IsSlideEvent(e) == e.type \in SlideTypes

SlideEvents(events) == SelectSeq(events, IsSlideEvent)

\* the slide events of one index, in emission order
OfIndex(events, k) ==
    SelectSeq(events, LAMBDA e : e.type \in SlideTypes /\ e.num = k)

IndicesOf(events) == {events[i].num : i \in {j \in 1..Len(events) : events[j].type \in SlideTypes}}

\* slide-start, then slide-content*, then at most one closing slide-complete
StartContentComplete(es) ==
    \/ es = <<>>
    \/ /\ es[1].type = "slide-start"
       /\ \A i \in 2..Len(es) :
             \/ es[i].type = "slide-content"
             \/ es[i].type = "slide-complete" /\ i = Len(es)

InScript == state.type = "IN_STRING_VALUE" /\ state.field = "script"

\* number of backslashes that end buf
TrailingBackslashes(buf) ==
    CHOOSE n \in 0..Len(buf) :
        /\ \A i \in (Len(buf) - n + 1)..Len(buf) : buf[i] = BS
        /\ n < Len(buf) => buf[Len(buf) - n] # BS

\* the last character read in the string is a backslash not yet consumed
PendingBackslash == TrailingBackslashes(state.buffer) % 2 = 1

\* this step feeds exactly the one character char to processChar
FeedsOne(char) ==
    /\ isAccumulatingJson
    /\ textBuffer' = Append(textBuffer, char)

\* the text of a JSON string body whose escapes are \" and \\
RECURSIVE Decode(_)
Decode(raw) ==
    IF raw = <<>> THEN <<>>
    ELSE IF Head(raw) = BS /\ Len(raw) >= 2
    THEN <<raw[2]>> \o Decode(SubSeq(raw, 3, Len(raw)))
    ELSE <<Head(raw)>> \o Decode(Tail(raw))

\* concatenation of the slide-content payloads of index k
RECURSIVE ContentOf(_, _)
ContentOf(events, k) ==
    IF events = <<>> THEN <<>>
    ELSE (IF Head(events).type = "slide-content" /\ Head(events).num = k
          THEN Head(events).str ELSE <<>>) \o ContentOf(Tail(events), k)

(***************************************************************************)
(* C1..C3: the terminal events of a session.                               *)
(***************************************************************************)
\* C1: a session that ends by normal end-of-stream has emitted exactly one
\* finish event, whatever chunks the upstream sent (its own finish included).
C1_ExactlyOneFinish ==
    (pc = "closed" /\ CountOf(out, "error") = 0) => CountOf(out, "finish") = 1

\* C2: when the upstream fails, the closed session has emitted exactly one
\* error event, immediately followed by a final finish event.
C2_ErrorThenFinish ==
    (pc = "closed" /\ CountOf(out, "error") > 0) =>
        /\ CountOf(out, "error") = 1
        /\ Len(out) >= 2
        /\ out[Len(out) - 1].type = "error"
        /\ out[Len(out)].type = "finish"

\* C3: finish is the last event: no event of any type is emitted after a
\* finish event.
C3_FinishIsLast == \A i \in 1..(Len(out) - 1) : out[i].type # "finish"

(***************************************************************************)
(* C4..C7: the record parser.                                              *)
(***************************************************************************)
\* C4: for every index, the events of that index are one slide-start, then
\* slide-content events, then a slide-complete, and nothing after it.
C4_PerIndexOrder ==
    \A k \in IndicesOf(out) : StartContentComplete(OfIndex(out, k))

\* C5: at most one slide-start event is emitted per index in a session.
C5_AtMostOneStart ==
    \A i, j \in 1..Len(out) :
        (/\ out[i].type = "slide-start"
         /\ out[j].type = "slide-start"
         /\ out[i].num = out[j].num) => i = j

\* the script of index 1 has been opened a second time, after its first
\* script was completed, with both identifying fields resolved
C5_Witness ==
    /\ InScript
    /\ state.slideNum = Some(1)
    /\ TruthyTitle(state.title)
    /\ \E i \in 1..Len(out) : out[i].type = "slide-complete" /\ out[i].num = 1
    /\ 1 \in slideScripts

\* C6: in a script string, a quote that directly follows an unconsumed
\* backslash emits nothing and leaves the parser in the script string; a
\* quote that does not ends the string and emits slide-complete; and no
\* other character emits slide-complete.
C6_EscapedQuote ==
    [][/\ (InScript /\ FeedsOne(Q)) =>
             IF PendingBackslash
             THEN InScript' /\ out' = out
             ELSE /\ state'.type = "IN_SLIDE_OBJECT"
                  /\ TruthyNum(state.slideNum) =>
                        out' = Append(out, Ev("slide-complete",
                                              state.slideNum[1], <<>>))
       /\ (/\ FeedsOne(textBuffer'[Len(textBuffer')])
           /\ CountOf(out', "slide-complete") > CountOf(out, "slide-complete"))
          => (/\ InScript
              /\ textBuffer'[Len(textBuffer')] = Q
              /\ ~PendingBackslash)
      ]_vars

\* an escaped quote has been read inside a script and the string is still open
C6_Witness ==
    /\ InScript
    /\ Len(state.buffer) >= 2
    /\ SubSeq(state.buffer, Len(state.buffer) - 1, Len(state.buffer)) = <<BS, Q>>

\* C7: the slide-content characters emitted for the script being read are
\* exactly its decoded text: every decoded character, no raw backslash.
C7_ContentIsDecodedText ==
    (/\ InScript
     /\ TruthyNum(state.slideNum)
     /\ ~PendingBackslash
     /\ \A i \in 1..Len(out) :
           ~(out[i].type = "slide-complete" /\ out[i].num = state.slideNum[1]))
    => ContentOf(out, state.slideNum[1]) = Decode(state.buffer)

(***************************************************************************)
(* C8..C10: the preamble filter.                                           *)
(***************************************************************************)
\* C8 as stated: the events of a text are the same whether it arrives one
\* character a fragment or cut at any other boundaries.
C8_SameEvents == out = ref.out

\* C8, amended: the slide-start, slide-content and slide-complete events of
\* a text, in order, are the same however the text is cut into fragments.
C8_SameSlideEvents == SlideEvents(out) = SlideEvents(ref.out)

\* a record was parsed completely from fragments whose cut changed the events
C8_Witness ==
    /\ out # ref.out
    /\ CountOf(out, "slide-complete") > 0
    /\ text = <<>>

\* C9: while the filter is in pass-through mode no slide event has been
\* emitted and processChar has not been called: the parser is as created.
C9_PreambleIsolation ==
    ~isAccumulatingJson =>
        /\ SlideEvents(out) = <<>>
        /\ state = StInit
        /\ charBuffer = <<>>
        /\ escapeNext = FALSE
        /\ slideScripts = {}

\* a whole record went by in pass-through mode
C9_Witness ==
    /\ ~isAccumulatingJson
    /\ includes(textBuffer, ScriptField(<<"a">>))
    /\ text = <<>>

\* C10: the filter is in parser mode as soon as the accumulated text holds
\* the fenced marker and the opening brace, also after a narrative preamble.
C10_SwitchOnLeadIn ==
    includes(textBuffer, Fence \o <<"{">>) => isAccumulatingJson

(***************************************************************************)
(* C11..C14: the hand-over from the filter to the parser.                  *)
(***************************************************************************)
endsWith(s, suf) ==
    Len(suf) <= Len(s) /\ SubSeq(s, Len(s) - Len(suf) + 1, Len(s)) = suf

\* C11: in parser mode every character from the lead-in position onward has
\* been fed to processChar, once and in order: until "slides" has been read
\* the lookahead buffer ends with the accumulated text from its first
\* non-blank character on, however the marker was cut into fragments.
C11_FedFromLeadIn ==
    (isAccumulatingJson /\ ~includes(textBuffer, kSlides)) =>
        endsWith(charBuffer, keepLast(trimStart(textBuffer), InitWindow))

\* C12: the mode change is one-way: once in parser mode the filter stays in
\* it and no step forwards a text-delta event, whatever the parser state.
C12_OneWay ==
    [][isAccumulatingJson =>
          /\ isAccumulatingJson'
          /\ CountOf(out', "text-delta") = CountOf(out, "text-delta")]_vars

\* text that follows the closed slides list was taken in parser mode
C12_Witness ==
    /\ isAccumulatingJson
    /\ state.type = "INIT"
    /\ CountOf(out, "slide-complete") > 0
    /\ text = <<>>
    /\ SubSeq(textBuffer, Len(textBuffer) - Len(Trailer) + 1, Len(textBuffer))
          = Trailer

\* the payloads of the text-delta events, concatenated in emission order
RECURSIVE Forwarded(_)
Forwarded(events) ==
    IF events = <<>> THEN <<>>
    ELSE (IF Head(events).type = "text-delta" THEN Head(events).str ELSE <<>>)
         \o Forwarded(Tail(events))

\* C13: as long as no lead-in has been recognised, every fragment is
\* forwarded verbatim as one text-delta event in arrival order, there is no
\* slide event and no error event, and the closed session ends with finish.
C13_NoLeadIn ==
    /\ [](~isAccumulatingJson =>
            /\ Forwarded(out) = textBuffer
            /\ SlideEvents(out) = <<>>
            /\ CountOf(out, "error") = 0
            /\ pc = "closed" => out[Len(out)].type = "finish")
    /\ [][(~isAccumulatingJson' /\ textBuffer' # textBuffer) =>
             out' = Append(out, Ev("text-delta", 0,
                                   SubSeq(textBuffer', Len(textBuffer) + 1,
                                          Len(textBuffer'))))]_vars

\* a stream without lead-in has ended, forwarded in two fragments
C13_Witness ==
    /\ pc = "closed"
    /\ ~isAccumulatingJson
    /\ textBuffer = Narrative
    /\ CountOf(out, "text-delta") = 2

\* the digits of a slide number below one hundred
DigitsOf(num) ==
    IF num < 10 THEN <<DigitChars[num + 1]>>
    ELSE <<DigitChars[(num \div 10) + 1], DigitChars[(num % 10) + 1]>>

\* 1-based position of the last occurrence of pat in s, 0 when there is none
lastIndexOf(s, pat) ==
    LET at == {i \in 1..(Len(s) - Len(pat) + 1) :
                  SubSeq(s, i, i + Len(pat) - 1) = pat}
    IN  IF at = {} THEN 0 ELSE CHOOSE i \in at : \A j \in at : j <= i

\* the text of the record being read: what follows the last opening brace
CurrentRecord(buf) == SubSeq(buf, lastIndexOf(buf, <<"{">>) + 1, Len(buf))

\* the character this step feeds, when it feeds exactly one
FedChar == textBuffer'[Len(textBuffer')]

FeedsSingle == FeedsOne(FedChar)

\* the event this step emits last
Emitted == out'[Len(out')]

\* the record being read holds a complete slideNumber field of value num
NumberReadInRecord(rec, num) ==
    \E pad \in Pads, d \in {",", "}", NL} :
        includes(rec, NumberField(pad \o DigitsOf(num)) \o <<d>>)

\* C14: every slide-start event carries a slideNumber and a title that are
\* not null, and when it is emitted both fields of the record being read
\* have been read to their end.
C14_StartIsResolved ==
    /\ [](\A i \in 1..Len(out) :
             out[i].type = "slide-start" =>
                 out[i].num # 0 /\ out[i].str # <<>>)
    /\ [][(/\ FeedsSingle
           /\ Len(out') = Len(out) + 1
           /\ Emitted.type = "slide-start")
          => /\ NumberReadInRecord(CurrentRecord(textBuffer'), Emitted.num)
             /\ includes(CurrentRecord(textBuffer'), TitleField(Emitted.str))
         ]_vars

\* slide-start was emitted for the second record of a list
C14_Witness ==
    /\ out # <<>>
    /\ out[Len(out)] = Ev("slide-start", 2, <<"U">>)
    /\ InScript

(***************************************************************************)
(* C15..C16: lines of the upstream that carry no chunk.                    *)
(***************************************************************************)
\* C15: the '[DONE]' line ends the session at once: after it no line of the
\* upstream is taken, no text reaches the filter, and the only event that
\* may still be emitted is finish.
C15_SentinelTerminates ==
    [][line = "[DONE]" =>
          /\ line' = "[DONE]"
          /\ textBuffer' = textBuffer
          /\ \/ out' = out
             \/ out' = Append(out, Ev("finish", 0, <<>>))]_vars

\* C16: a data line that does not decode emits nothing, leaves the parser
\* state, the lookahead buffer, the escape flag, the started memo and the
\* filter untouched, and leaves the loop at the next line; the slide events
\* of the session stay those of its text.
C16_MalformedSkipped ==
    /\ [][(nCtl' # nCtl /\ line' = "malformed") =>
             /\ out' = out
             /\ state' = state
             /\ charBuffer' = charBuffer
             /\ escapeNext' = escapeNext
             /\ slideScripts' = slideScripts
             /\ textBuffer' = textBuffer
             /\ isAccumulatingJson' = isAccumulatingJson
             /\ pc' = "lines"]_vars
    /\ [](SlideEvents(out) = SlideEvents(ref.out))

\* a line that does not decode was met inside a script
C16_Witness ==
    /\ line = "malformed"
    /\ InScript
    /\ state.buffer # <<>>
    /\ pc = "lines"

(***************************************************************************)
(* C17..C18: cancellation by the consumer.                                 *)
(***************************************************************************)
\* C17: once the consumer has cancelled, no further read is issued on the
\* reader of the upstream.
C17_StopsPulling ==
    [][(cancelled /\ pc # "read") => pc' # "read"]_vars

\* C18: once the consumer has cancelled, no event is emitted and no
\* sendEvent is attempted.
C18_NoEventAfterCancel ==
    /\ [][cancelled => out' = out]_vars
    /\ [](cancelled => nRejected = 0)

(***************************************************************************)
(* C19: end of the upstream inside a script.                               *)
(***************************************************************************)
\* number of places of s where pat occurs
Occurrences(s, pat) ==
    Cardinality({i \in 1..(Len(s) - Len(pat) + 1) :
                    SubSeq(s, i, i + Len(pat) - 1) = pat})

C20_SessionsIndependent ==
    /\ other = perChar(NewSession, other.textBuffer)
    /\ SlideEvents(out) = SlideEvents(perChar(NewSession, textBuffer).out)
    /\ Forwarded(out) = Forwarded(perChar(NewSession, textBuffer).out)

\* both sessions are inside the script of their index 1 at the same time
C20_Witness ==
    /\ InScript
    /\ other.state.type = "IN_STRING_VALUE"
    /\ other.state.field = "script"
    /\ 1 \in slideScripts
    /\ 1 \in other.slideScripts

(***************************************************************************)
(* C21: the user id of overlapping requests.                               *)
(***************************************************************************)
\* C21: every getUserId call of a tool that runs for a request returns the
\* user id of that request: not the id of another request, and not the
\* error of an empty store.
C21_RequestScoped ==
    \A r \in Requests :
        req[r].seen # "none" => req[r].seen = req[r].userId[1]

(***************************************************************************)
(* C22..C30: the record context and the buffers of the parser.             *)
(***************************************************************************)
\* C22: every slide event carries the slideNumber, and slide-start the
\* title, read from the record being parsed, for every field order; and
\* once the closing brace of a record has been read the context is null.
C22_NoCrossContamination ==
    /\ [][(/\ FeedsSingle
           /\ Len(out') = Len(out) + 1
           /\ Emitted.type \in SlideTypes)
          => /\ NumberReadInRecord(CurrentRecord(textBuffer'), Emitted.num)
             /\ Emitted.type = "slide-start" =>
                   includes(CurrentRecord(textBuffer'), TitleField(Emitted.str))
         ]_vars
    /\ []((/\ isAccumulatingJson
           /\ state.type # "IN_STRING_VALUE"
           /\ textBuffer[Len(textBuffer)] = "}")
          => state.slideNum = Null /\ state.title = Null)

\* C23: once the closing bracket of the slides list has been read, no text
\* that follows emits a slide event.
C23_ListCloseTerminal ==
    [][(isAccumulatingJson /\ includes(textBuffer, <<"]">>)) =>
          SlideEvents(out') = SlideEvents(out)]_vars

\* C24: in the script of a record whose index is resolved, a character that
\* is neither a backslash nor a quote, and does not follow a pending
\* backslash, emits exactly one slide-content event with the index and that
\* character, and the parser stays in the script.
C24_OneContentPerChar ==
    [][(/\ InScript
        /\ TruthyNum(state.slideNum)
        /\ ~PendingBackslash
        /\ FeedsSingle
        /\ FedChar \notin {BS, Q})
       => /\ out' = Append(out, Ev("slide-content", state.slideNum[1],
                                   <<FedChar>>))
          /\ InScript'
          /\ state'.buffer = Append(state.buffer, FedChar)]_vars

\* a script longer than the lookahead window was sent character by character
C24_Witness ==
    /\ InScript
    /\ Len(ContentOf(out, 1)) > ObjectWindow
    /\ CountOf(out, "slide-content") = Len(ContentOf(out, 1))

\* C25: the parser is in the script string only when the slideNumber and
\* the title of the record are both non-null.
C25_ScriptNeedsBoth ==
    InScript => (state.slideNum # Null /\ state.title # Null)

RecordStates == {"IN_SLIDE_OBJECT", "IN_NUMBER_VALUE", "IN_STRING_VALUE"}

\* C26: inside a record no transition sets a slideNum or a title that is
\* non-null back to null.
C26_MonotoneFill ==
    [][(/\ FeedsSingle
        /\ state.type \in RecordStates
        /\ state'.type \in RecordStates)
       => /\ state.slideNum # Null => state'.slideNum # Null
          /\ state.title # Null => state'.title # Null]_vars

\* the raw characters of the string being read: what follows its opening quote
OpenRaw == SubSeq(textBuffer, lastIndexOf(textBuffer, <<":", Q>>) + 2,
                  Len(textBuffer))

\* C27: the buffer of the string being read holds its decoded characters:
\* no escape introducer, and of an escape sequence the resolved character.
C27_BufferDecoded ==
    (/\ isAccumulatingJson
     /\ state.type = "IN_STRING_VALUE"
     /\ ~escapeNext)
    => state.buffer = Decode(OpenRaw)

\* C28: the lookahead buffer never exceeds the window, and the buffer of
\* the filter does not grow with the text received in parser mode.
C28_BoundedBuffers ==
    /\ [](Len(charBuffer) <= ObjectWindow)
    /\ [][isAccumulatingJson => Len(textBuffer') <= Len(textBuffer)]_vars

\* C29: in the number state a character that is not a digit, met while no
\* digit has been read, changes nothing and emits nothing; the number state
\* is left only with digits read, and slideNum is their integer value.
C29_NumberField ==
    [][(state.type = "IN_NUMBER_VALUE" /\ FeedsSingle) =>
          /\ (state.buffer = <<>> /\ ~IsDigit(FedChar)) =>
                (state' = state /\ out' = out)
          /\ state'.type # "IN_NUMBER_VALUE" =>
                /\ state.buffer # <<>>
                /\ state'.slideNum # Null
                /\ DigitsOf(state'.slideNum[1]) = state.buffer
                /\ out' = out]_vars

\* a newline was met in the number state before any digit, and ignored
C29_Witness ==
    /\ state.type = "IN_NUMBER_VALUE"
    /\ state.buffer = <<>>
    /\ endsWith(textBuffer, kSlideNumber \o <<":", NL>>)

StartedIndices == {out[i].num : i \in {j \in 1..Len(out) :
                                          out[j].type = "slide-start"}}

\* C30: the memo only grows, and its keys are at every point the indices
\* for which slide-start has been emitted.
C30_MemoIsStarted ==
    /\ [](slideScripts = StartedIndices)
    /\ [][slideScripts \subseteq slideScripts']_vars

\* two indices have been started
C30_Witness ==
    /\ slideScripts = {1, 2}
    /\ CountOf(out, "slide-start") = 2

\* C31: a session that passes parameter validation has start as its first
\* event and holds it exactly once, from before the first upstream chunk to
\* the end, whatever chunks of type 'start' the upstream sends; a refused
\* request has no event.
C31_StartOnce ==
    /\ pc \in {"get", "refused"} => out = <<>>
    /\ pc \in {"fetch", "read", "lines", "closed"} =>
          /\ out # <<>>
          /\ out[1].type = "start"
          /\ CountOf(out, "start") = 1

\* an upstream chunk of type 'start' has been handled and the session is over
C31_Witness ==
    /\ pc = "closed"
    /\ line = "start"
    /\ CountOf(out, "start") = 1

\* C32: every slide-content and slide-complete event carries a slideNumber
\* that is neither null nor zero, and while the index the parser carries for
\* the record is null or zero, a character fed to the script, its closing
\* quote included, emits nothing.
C32_ContentIsIndexed ==
    /\ [](\A i \in 1..Len(out) :
             out[i].type \in {"slide-content", "slide-complete"}
                => out[i].num # 0)
    /\ [][(InScript /\ ~TruthyNum(state.slideNum) /\ FeedsSingle)
             => out' = out]_vars

\* the script of a record of index 0 was read to its closing quote
C32_Witness ==
    /\ state.type = "IN_SLIDE_OBJECT"
    /\ state.slideNum = Some(0)
    /\ endsWith(textBuffer, ScriptField(<<"a">>))
    /\ SlideEvents(out) = <<>>

\* the handler of request r has set the id and has returned
Finished(r) == req[r].pc \in {"ended", "failed", "aborted"}

\* C33: when the requests are handled one at a time, the step that ends a
\* handler (the text stream completes, SlideAgent.stream rejects, or the text
\* stream throws) leaves currentUserId null, and it is null whenever no
\* handler is running.
C33_ClearedOnExit ==
    /\ []((\A r \in Requests : ~Active(r)) => currentUserId = Null)
    /\ [][\A r \in Requests :
             (Active(r) /\ Finished(r)') => currentUserId' = Null]_vars

\* the text stream of the only request threw after a tool had read the id
C33_Witness ==
    /\ req[1].pc = "aborted"
    /\ req[1].seen = req[1].userId[1]
    /\ req[2].pc = "idle"
    /\ currentUserId = Null

\* position of the last setUserId or clearUserId before call i, 0 when none
LastWrite(i) ==
    LET at == {j \in 1..(i - 1) : calls[j].op \in {"set", "clear"}}
    IN  IF at = {} THEN 0 ELSE CHOOSE j \in at : \A k \in at : k <= j

\* C34: getUserId returns the value of the last setUserId when no
\* clearUserId came after it, and raises when nothing was set, after
\* clearUserId, or when the value set was the empty string; a getUserId
\* that raises leaves the store as it was.
C34_GetUserId ==
    /\ [](\A i \in 1..Len(calls) :
             calls[i].op = "get" =>
                LET j == LastWrite(i) IN
                calls[i].v = IF j = 0 \/ calls[j].op = "clear" \/ calls[j].v = ""
                             THEN "throws" ELSE calls[j].v)
    /\ [][(/\ Len(calls') = Len(calls) + 1
           /\ calls'[Len(calls')] = [op |-> "get", v |-> "throws"])
          => currentUserId' = currentUserId]_vars

\* an id was set and read, then cleared, and the next read raised
C34_Witness ==
    calls = <<[op |-> "set", v |-> "A"], [op |-> "get", v |-> "A"],
              [op |-> "clear", v |-> ""], [op |-> "get", v |-> "throws"]>>

\* the message holds '401' or 'invalid_grant'
TokenExpired(message) ==
    includes(message, k401) \/ includes(message, kInvalidGrant)

\* C38: an execute call of getSlide or getSlideCount makes at most two
\* fetch attempts; the second is made exactly when the first threw an Error
\* whose message holds '401' or 'invalid_grant'; when the second fails,
\* execute raises 'Authentication failed after retry' with no third attempt,
\* and any other failure of the first raises with one attempt made.
C38_AtMostOneRetry ==
    /\ [](\A t \in Tools :
            /\ tool[t].attempts <= 2
            /\ tool[t].attempts = 2 <=>
                  /\ tool[t].error # Null
                  /\ tool[t].error[1].isError
                  /\ TokenExpired(tool[t].error[1].message)
            /\ (tool[t].pc = "raised" /\ tool[t].attempts = 2)
                  => tool[t].raised[1].kind = "auth-retry"
            /\ (tool[t].pc = "raised" /\ tool[t].attempts = 1)
                  => tool[t].raised[1].kind # "auth-retry")
    /\ [][\A t \in Tools :
             (tool[t].pc = "second" /\ tool'[t].pc # "second")
                => /\ tool'[t].pc \in {"returned", "raised"}
                   /\ tool'[t].attempts = 2]_vars

\* the first fetch of getSlide failed with an expired token and so did the
\* second: execute raised after two attempts
C38_Witness ==
    /\ tool["getSlide"].pc = "raised"
    /\ tool["getSlide"].attempts = 2
    /\ tool["getSlide"].error = Some([isError |-> TRUE, message |-> kInvalidGrant])
    /\ tool["getSlide"].raised[1].kind = "auth-retry"

\* the EventSource is delivering or the browser is connecting it again
Alive(c) == conns[c].ready \in {"open", "connecting"}

\* this step runs a callback of connection c
CallbackOf(c) ==
    \/ \E chunk \in ControlChunks \cup SlideChunks : onmessage(c, chunk)
    \/ \E fatal \in BOOLEAN : onerror(c, fatal)

\* C35: a connection whose finish chunk has been handled is closed, with
\* isProcessing false and streamFinished true at that step, and no later
\* callback of that connection changes the processing state.
C35_FinishIsFinal ==
    /\ [](\A c \in Conns : conns[c].finished => conns[c].ready = "closed")
    /\ [][\A c \in Conns :
             (~conns[c].finished /\ conns'[c].finished)
                => ~clientState'.isProcessing /\ clientState'.streamFinished]_vars
    /\ [][\A c \in Conns :
             (conns[c].finished /\ CallbackOf(c))
                => clientState' = clientState]_vars

\* C36: at most one EventSource of the component is alive at any time, and
\* a callback of a connection never closes a connection created after it.
C36_OneConnection ==
    /\ [](Cardinality({c \in Conns : Alive(c)}) <= 1)
    /\ [][\A c, b \in Conns :
             (c < b /\ CallbackOf(c) /\ Alive(b)) => Alive(b)']_vars

\* C37: the slides hold at most one block per slideNumber, in ascending
\* order, and a slide-content or slide-complete chunk whose slideNumber has
\* no block leaves them as they are.
C37_SlidesSorted ==
    /\ [](\A i, j \in 1..Len(clientState.slides) :
             i < j => clientState.slides[i].slideNumber
                        < clientState.slides[j].slideNumber)
    /\ [][\A c \in Conns, chunk \in SlideChunks :
             (/\ chunk.type \in {"slide-content", "slide-complete"}
              /\ \A i \in 1..Len(clientState.slides) :
                    clientState.slides[i].slideNumber # chunk.num
              /\ onmessage(c, chunk))
                => clientState'.slides = clientState.slides]_vars

\* four blocks are held, one of them with content and complete
C37_Witness ==
    /\ Len(clientState.slides) = 4
    /\ clientState.slides[3].script = <<"a">>
    /\ clientState.slides[3].isComplete
    /\ clientState.slides[4].title = <<"a">>

\* C39: escapeNext is true only in a string-value state; a character sets
\* it only when it is a backslash read inside a string, and the next
\* character processed clears it.
C39_EscapeOnlyInString ==
    /\ [](escapeNext => state.type = "IN_STRING_VALUE")
    /\ [][(escapeNext /\ FeedsSingle) => ~escapeNext']_vars
    /\ [][(~escapeNext /\ escapeNext' /\ FeedsSingle)
             => /\ state.type = "IN_STRING_VALUE"
                /\ state'.type = "IN_STRING_VALUE"
                /\ FedChar = BS]_vars

\* the escaped quote of a title has been read and the flag is down again
C39_Witness ==
    /\ state.type = "IN_STRING_VALUE"
    /\ state.field = "title"
    /\ state.buffer = <<"T", BS, Q>>
    /\ ~escapeNext

====
